---- MODULE Spec2Model ----
(***************************************************************************)
(* Model of bropkg/package.py: the Package value object, its canonical     *)
(* string form (__str__), debug form (__repr__), ordering (__lt__) and      *)
(* path matching (matches_path).                                            *)
(*                                                                          *)
(* A Python str is a sequence of one-character strings.  None is the one    *)
(* value that is no str.  An exception raised by a call is recorded in the  *)
(* call's outcome next to the returned value.                               *)
(***************************************************************************)
EXTENDS Integers, Sequences, FiniteSets, TLC

VARIABLES pkgs, call

vars == <<pkgs, call>>

----------------------------------------------------------------------------
(* Bounds of the explored inputs.                                           *)

MaxUrlLen == 3
MaxSrcLen == 1
MaxDirLen == 1
MaxPathLen == 2
LtMaxLen == 1

(* The characters strings are built from: the separator and one other.      *)
Alphabet == {"/", "a"}

(* ord(c): the code point Python compares characters by.                    *)
Ord(c) == IF c = "/" THEN 47 ELSE 97

(* Python's None: distinct from every str, the empty str included.          *)
None == <<"None">>

(* All strs of length at most n.                                            *)
Strs(n) == UNION {[1..k -> Alphabet] : k \in 0..n}

(* An optional argument: None or a str of length at most n.                 *)
OptStrs(n) == {None} \cup Strs(n)

----------------------------------------------------------------------------
(* Python primitives used by package.py.                                    *)

(* bool(x) for x a str or None: false for None and for ''.                  *)
Truthy(x) == x # None /\ x # <<>>

(* s.split('/'): the maximal '/'-free pieces, empty pieces kept.            *)
RECURSIVE Split(_)
Split(s) ==
    IF \A k \in 1..Len(s) : s[k] # "/"
    THEN <<s>>
    ELSE LET i == CHOOSE k \in 1..Len(s) :
                      s[k] = "/" /\ \A j \in 1..(k - 1) : s[j] # "/"
         IN  <<SubSeq(s, 1, i - 1)>> \o Split(SubSeq(s, i + 1, Len(s)))

(* '{}/{}'.format(a, b)                                                     *)
Format2(a, b) == a \o <<"/">> \o b

(* '{}/{}/{}'.format(a, b, c)                                               *)
Format3(a, b, c) == a \o <<"/">> \o b \o <<"/">> \o c

(* s < t on strs: the first differing character decides by code point; a    *)
(* proper prefix is smaller.                                                *)
RECURSIVE StrLess(_, _)
StrLess(s, t) ==
    IF t = <<>> THEN FALSE
    ELSE IF s = <<>> THEN TRUE
    ELSE IF Ord(Head(s)) # Ord(Head(t)) THEN Ord(Head(s)) < Ord(Head(t))
    ELSE StrLess(Tail(s), Tail(t))

(* seq[ri] for a negative Python index ri, -len(seq) <= ri <= -1.           *)
NegIndex(seq, ri) == seq[Len(seq) + ri + 1]

----------------------------------------------------------------------------
(* class Package                                                            *)

(* Faulty variant of __init__: name taken from the first segment,           *)
(* git_url.split('/')[0].                                                   *)
init_first_segment(git_url, source, module_dir) ==
    [git_url    |-> git_url,
     name       |-> Split(git_url)[1],
     source     |-> source,
     module_dir |-> module_dir]

__init__(git_url, source, module_dir) ==
    [git_url    |-> git_url,
     name       |-> NegIndex(Split(git_url), -1),
     source     |-> source,
     module_dir |-> module_dir]

(* Faulty variant of __str__: module_dir left out of the canonical string.   *)
str_without_module_dir(self) ==
    IF Truthy(self.source)
    THEN Format2(self.source, self.name)
    ELSE self.git_url

(* Faulty variant of __str__: module_dir tested before source, so that it   *)
(* shows in the canonical string of a package without source.               *)
str_module_dir_first(self) ==
    IF Truthy(self.module_dir)
    THEN IF Truthy(self.source)
         THEN Format3(self.source, self.module_dir, self.name)
         ELSE Format2(self.module_dir, self.name)
    ELSE IF Truthy(self.source)
         THEN Format2(self.source, self.name)
         ELSE self.git_url

__str__(self) ==
    IF Truthy(self.source)
    THEN IF Truthy(self.module_dir)
         THEN Format3(self.source, self.module_dir, self.name)
         ELSE Format2(self.source, self.name)
    ELSE self.git_url

__repr__(self) == self.git_url

(* Faulty variant of __lt__: orders by git_url (the repr), not by the        *)
(* canonical string.                                                        *)
lt_by_repr(self, other) == StrLess(__repr__(self), __repr__(other))

__lt__(self, other) == StrLess(__str__(self), __str__(other))

(* Outcome of a matches_path call: the value returned, or the exception     *)
(* raised.                                                                  *)
Returned(b) == [exc |-> "none", ret |-> b]
Raised(e) == [exc |-> e, ret |-> FALSE]

(* Faulty variant of the loop: pkg_path_parts indexed by i, from the        *)
(* start, instead of by ri, from the end.                                   *)
RECURSIVE MatchLoop_index_from_start(_, _, _)
MatchLoop_index_from_start(path_parts, pkg_path_parts, i) ==
    IF i < 0 THEN Returned(TRUE)
    ELSE LET part == path_parts[i + 1]
         IN  IF i >= Len(pkg_path_parts) THEN Raised("IndexError")
             ELSE IF part # pkg_path_parts[i + 1] THEN Returned(FALSE)
             ELSE MatchLoop_index_from_start(path_parts, pkg_path_parts, i - 1)

(* Faulty variant of the loop: enumerate(path_parts) walked without         *)
(* reversed(), from index 0 upwards.                                        *)
RECURSIVE MatchLoop_upwards(_, _, _)
MatchLoop_upwards(path_parts, pkg_path_parts, i) ==
    IF i >= Len(path_parts) THEN Returned(TRUE)
    ELSE LET part == path_parts[i + 1]
             ri   == i - Len(path_parts)
         IN  IF ri < -Len(pkg_path_parts) THEN Raised("IndexError")
             ELSE IF part # NegIndex(pkg_path_parts, ri) THEN Returned(FALSE)
             ELSE MatchLoop_upwards(path_parts, pkg_path_parts, i + 1)

MatchLoop_not_reversed(path_parts, pkg_path_parts, i) ==
    MatchLoop_upwards(path_parts, pkg_path_parts, 0)

(* The loop of matches_path from Python index i downwards: i runs over      *)
(* reversed(list(enumerate(path_parts))).                                   *)
RECURSIVE MatchLoop(_, _, _)
MatchLoop(path_parts, pkg_path_parts, i) ==
    IF i < 0 THEN Returned(TRUE)
    ELSE LET part == path_parts[i + 1]
             ri   == i - Len(path_parts)
         IN  IF ri < -Len(pkg_path_parts) THEN Raised("IndexError")
             ELSE IF part # NegIndex(pkg_path_parts, ri) THEN Returned(FALSE)
             ELSE MatchLoop(path_parts, pkg_path_parts, i - 1)

(* Faulty variant of matches_path: without source, the single-segment test *)
(* len(path_parts) == 1 is missing.                                         *)
matches_path_any_length(self, path) ==
    LET path_parts == Split(path)
    IN  IF Truthy(self.source)
        THEN MatchLoop(path_parts, Split(__str__(self)), Len(path_parts) - 1)
        ELSE IF NegIndex(path_parts, -1) = self.name
             THEN Returned(TRUE)
             ELSE Returned(path = self.git_url)

(* Faulty variant of matches_path: without source, only the name matches;   *)
(* the comparison with git_url is missing.                                  *)
matches_path_name_only(self, path) ==
    LET path_parts == Split(path)
    IN  IF Truthy(self.source)
        THEN MatchLoop(path_parts, Split(__str__(self)), Len(path_parts) - 1)
        ELSE IF Len(path_parts) = 1 /\ NegIndex(path_parts, -1) = self.name
             THEN Returned(TRUE)
             ELSE Returned(FALSE)

matches_path(self, path) ==
    LET path_parts == Split(path)
    IN  IF Truthy(self.source)
        THEN LET pkg_path       == __str__(self)
                 pkg_path_parts == Split(pkg_path)
             IN  MatchLoop(path_parts, pkg_path_parts, Len(path_parts) - 1)
        ELSE IF Len(path_parts) = 1 /\ NegIndex(path_parts, -1) = self.name
             THEN Returned(TRUE)
             ELSE Returned(path = self.git_url)

----------------------------------------------------------------------------
(* The program: packages are constructed, then queried.                     *)

Packages == {__init__(u, s, m) : u \in Strs(MaxUrlLen),
                                 s \in OptStrs(MaxSrcLen),
                                 m \in OptStrs(MaxDirLen)}

LtPackages == {__init__(u, s, m) : u \in Strs(LtMaxLen),
                                   s \in OptStrs(LtMaxLen),
                                   m \in OptStrs(LtMaxLen)}

(* The last call made and its outcome.                                      *)
NoCall == [op |-> "none", self |-> 0, other |-> 0, path |-> <<>>,
           str |-> <<>>, ret |-> FALSE, exc |-> "none"]

(* s joined to a sequence of segments with '/'.                             *)
RECURSIVE Join(_)
Join(parts) ==
    IF Len(parts) = 1 THEN parts[1]
    ELSE Format2(parts[1], Join(Tail(parts)))

(* Paths a caller asks about: every short str, and for package p its        *)
(* git_url, the trailing slices of its canonical string, and that string    *)
(* with one more leading segment.                                           *)
PathsFor(p) ==
    LET parts == Split(__str__(p))
    IN  Strs(MaxPathLen)
          \cup {p.git_url}
          \cup {Join(SubSeq(parts, k, Len(parts))) : k \in 1..Len(parts)}
          \cup {Format2(x, __str__(p)) : x \in {<<>>, <<"a">>}}

Init ==
    /\ pkgs \in {<<p>> : p \in Packages}
    /\ call = NoCall

StrCall(i) ==
    /\ call' = [NoCall EXCEPT !.op = "str", !.self = i,
                              !.str = __str__(pkgs[i])]
    /\ UNCHANGED pkgs

ReprCall(i) ==
    /\ call' = [NoCall EXCEPT !.op = "repr", !.self = i,
                              !.str = __repr__(pkgs[i])]
    /\ UNCHANGED pkgs

LtCall(i, j) ==
    /\ call' = [NoCall EXCEPT !.op = "lt", !.self = i, !.other = j,
                              !.ret = __lt__(pkgs[i], pkgs[j])]
    /\ UNCHANGED pkgs

(* Faulty variant of the matches_path call: the last path segment is kept   *)
(* in self.name.                                                            *)
MatchesPathCall_keeps_segment(i, path) ==
    LET r == matches_path(pkgs[i], path)
    IN  /\ call' = [NoCall EXCEPT !.op = "matches_path", !.self = i,
                                  !.path = path, !.ret = r.ret, !.exc = r.exc]
        /\ pkgs' = [pkgs EXCEPT ![i].name = NegIndex(Split(path), -1)]

MatchesPathCall(i, path) ==
    LET r == matches_path(pkgs[i], path)
    IN  /\ call' = [NoCall EXCEPT !.op = "matches_path", !.self = i,
                                  !.path = path, !.ret = r.ret, !.exc = r.exc]
        /\ UNCHANGED pkgs

DoStr == \E i \in DOMAIN pkgs : StrCall(i)
DoRepr == \E i \in DOMAIN pkgs : ReprCall(i)
DoLt == \E i \in DOMAIN pkgs : \E j \in DOMAIN pkgs : LtCall(i, j)
DoMatchesPath ==
    \E i \in DOMAIN pkgs : \E path \in PathsFor(pkgs[i]) : MatchesPathCall(i, path)

Next == DoStr \/ DoRepr \/ DoLt \/ DoMatchesPath

Spec == Init /\ [][Next]_vars

(* Two packages, compared.                                                  *)
InitLt ==
    /\ pkgs \in {<<p, q>> : p \in LtPackages, q \in LtPackages}
    /\ call = NoCall

NextLt == DoLt

SpecLt == InitLt /\ [][NextLt]_vars

----------------------------------------------------------------------------
(* Vocabulary of the properties.                                            *)

(* The package the last call was made on, and the other one of __lt__.      *)
Self == pkgs[call.self]
Other == pkgs[call.other]

IsStr == call.op = "str"
IsLt == call.op = "lt"
IsMatch == call.op = "matches_path"

(* A field holds a value (any str, '' included) rather than no value.       *)
Present(x) == x # None

(* A field holds a str of at least one character.                           *)
NonEmpty(x) == x # None /\ Len(x) > 0

PathParts == Split(call.path)
IdParts == Split(__str__(Self))

(* The last n elements of seq.                                              *)
TrailingSlice(seq, n) == SubSeq(seq, Len(seq) - n + 1, Len(seq))

ReturnedTrue == call.exc = "none" /\ call.ret
ReturnedFalse == call.exc = "none" /\ ~call.ret

(* s is lexicographically less than t, by code point: they agree on the     *)
(* first k characters and then s ends before t does, or s has the smaller   *)
(* character.                                                               *)
LexLess(s, t) ==
    \E k \in 0..Len(s) :
        /\ k <= Len(t)
        /\ \A j \in 1..k : s[j] = t[j]
        /\ \/ k = Len(s) /\ k < Len(t)
           \/ k < Len(s) /\ k < Len(t) /\ Ord(s[k + 1]) < Ord(t[k + 1])

(* n is the final '/'-delimited segment of u: it has no '/', and u is n     *)
(* itself or ends with '/' followed by n.                                   *)
IsFinalSegment(n, u) ==
    /\ \A k \in 1..Len(n) : n[k] # "/"
    /\ Len(n) <= Len(u)
    /\ SubSeq(u, Len(u) - Len(n) + 1, Len(u)) = n
    /\ Len(u) > Len(n) => u[Len(u) - Len(n)] = "/"

----------------------------------------------------------------------------
(* C1 as stated: for a package whose source holds any value and a path of   *)
(* at most as many segments as the canonical string, matches_path returns   *)
(* true iff the path's segments equal the trailing slice of the canonical   *)
(* string's segments of the same length.  Fails for source = ''.            *)
C1_AsStated ==
    (IsMatch /\ Present(Self.source) /\ Len(PathParts) <= Len(IdParts))
        => /\ call.exc = "none"
           /\ call.ret = (PathParts = TrailingSlice(IdParts, Len(PathParts)))

(* C1 amended: for a package whose source is a non-empty str and a path of  *)
(* at most as many segments as the canonical string, matches_path returns   *)
(* true iff the path's segments equal the trailing slice of the canonical   *)
(* string's segments of the same length.                                    *)
C1_SuffixMatch ==
    (IsMatch /\ NonEmpty(Self.source) /\ Len(PathParts) <= Len(IdParts))
        => /\ call.exc = "none"
           /\ call.ret = (PathParts = TrailingSlice(IdParts, Len(PathParts)))

(* A proper multi-segment trailing slice of a sourced package matched.      *)
C1_Witness ==
    /\ IsMatch /\ NonEmpty(Self.source)
    /\ Len(PathParts) >= 2 /\ Len(PathParts) < Len(IdParts)
    /\ PathParts = TrailingSlice(IdParts, Len(PathParts))
    /\ ReturnedTrue

(* C2: for a package whose source is present and a path of more segments    *)
(* than the canonical string, matches_path returns false and raises         *)
(* nothing.  The code raises IndexError when the whole canonical string is  *)
(* a trailing slice of the path.                                            *)
C2_LongPathIsNoMatch ==
    (IsMatch /\ Present(Self.source) /\ Len(PathParts) > Len(IdParts))
        => ReturnedFalse

(* C3: for a package whose source is absent, matches_path returns true iff  *)
(* the path is the name or is the whole git_url.                            *)
C3_NoSourceExact ==
    (IsMatch /\ ~Present(Self.source))
        => /\ call.exc = "none"
           /\ call.ret = (call.path = Self.name \/ call.path = Self.git_url)

(* A proper multi-segment suffix of git_url did not match.                  *)
C3_Witness ==
    /\ IsMatch /\ ~Present(Self.source)
    /\ Len(PathParts) >= 2 /\ Len(PathParts) < Len(Split(Self.git_url))
    /\ PathParts = TrailingSlice(Split(Self.git_url), Len(PathParts))
    /\ ReturnedFalse

(* C4 as stated: whenever source holds any value, the canonical string is   *)
(* source/module_dir/name if module_dir holds any value and source/name     *)
(* otherwise.  Fails for source = '' and for module_dir = ''.               *)
C4_AsStated ==
    (IsStr /\ Present(Self.source))
        => call.str =
             IF Present(Self.module_dir)
             THEN Self.source \o <<"/">> \o Self.module_dir \o <<"/">> \o Self.name
             ELSE Self.source \o <<"/">> \o Self.name

(* C4 amended: when source is a non-empty str the canonical string is       *)
(* source/module_dir/name if module_dir is a non-empty str and source/name  *)
(* if module_dir is absent or ''; when source is '' it is git_url.          *)
C4_Identity ==
    (IsStr /\ Present(Self.source))
        => call.str =
             IF Self.source = <<>> THEN Self.git_url
             ELSE IF NonEmpty(Self.module_dir)
             THEN Self.source \o <<"/">> \o Self.module_dir \o <<"/">> \o Self.name
             ELSE Self.source \o <<"/">> \o Self.name

(* The three-part form was produced.                                        *)
C4_Witness ==
    /\ IsStr /\ NonEmpty(Self.source) /\ NonEmpty(Self.module_dir)
    /\ Len(Split(call.str)) >= 3

(* C5: when source is absent, module_dir has no influence: the canonical    *)
(* string is git_url, and matches_path gives the outcome it gives for the   *)
(* same package with any other module_dir.                                  *)
C5_ModuleDirIgnored ==
    /\ (IsStr /\ ~Present(Self.source)) => call.str = Self.git_url
    /\ (IsMatch /\ ~Present(Self.source))
          => \A m \in OptStrs(MaxDirLen) :
                LET q == __init__(Self.git_url, Self.source, m)
                IN  /\ __str__(q) = Self.git_url
                    /\ matches_path(q, call.path) = [exc |-> call.exc, ret |-> call.ret]

(* A source-less package with a non-empty module_dir matched its git_url.   *)
C5_Witness ==
    /\ IsMatch /\ ~Present(Self.source) /\ NonEmpty(Self.module_dir)
    /\ Len(PathParts) >= 2 /\ ReturnedTrue

(* C6: for a package whose source is present, a path whose last segment     *)
(* differs from name never matches, however long the path.                  *)
C6_LastSegmentMustBeName ==
    (IsMatch /\ Present(Self.source) /\ PathParts[Len(PathParts)] # Self.name)
        => ReturnedFalse

(* A path longer than the canonical string was rejected on its last         *)
(* segment.                                                                 *)
C6_Witness ==
    /\ IsMatch /\ NonEmpty(Self.source)
    /\ Len(PathParts) > Len(IdParts)
    /\ PathParts[Len(PathParts)] # Self.name
    /\ ReturnedFalse

(* C7: __lt__(a, b) is true iff the canonical string of a is               *)
(* lexicographically less than that of b; equal canonical strings compare   *)
(* not-less both ways, a < b excludes b < a, and a < b < c gives a < c.     *)
C7_OrderByIdentity ==
    IsLt => /\ call.ret = LexLess(__str__(Self), __str__(Other))
            /\ __str__(Self) = __str__(Other)
                  => ~call.ret /\ ~__lt__(Other, Self)
            /\ call.ret => ~__lt__(Other, Self)
            /\ \A u \in Strs(LtMaxLen) :
                  LET third == __init__(u, None, None)
                  IN  (call.ret /\ __lt__(Other, third)) => __lt__(Self, third)

(* Two packages of different git_url and equal canonical string compared.   *)
C7_Witness ==
    /\ IsLt /\ Self.git_url # Other.git_url
    /\ __str__(Self) = __str__(Other)
    /\ ~call.ret

(* C8 as stated: a package constructed from a non-empty git_url has a       *)
(* non-empty name, the final '/'-delimited segment of git_url.  Fails for   *)
(* a git_url ending in '/'.                                                 *)
C8_AsStated ==
    \A i \in DOMAIN pkgs :
        pkgs[i].git_url # <<>>
            => /\ pkgs[i].name # <<>>
               /\ IsFinalSegment(pkgs[i].name, pkgs[i].git_url)

(* C8 amended: a package's name is the final '/'-delimited segment of its   *)
(* git_url; it is non-empty exactly when git_url is non-empty and does not  *)
(* end in '/'.                                                              *)
C8_NameIsFinalSegment ==
    \A i \in DOMAIN pkgs :
        LET u == pkgs[i].git_url
        IN  /\ IsFinalSegment(pkgs[i].name, u)
            /\ pkgs[i].name # <<>> <=> (u # <<>> /\ u[Len(u)] # "/")

(* A package constructed from a multi-segment git_url.                      *)
C8_Witness ==
    \E i \in DOMAIN pkgs :
        /\ Len(Split(pkgs[i].git_url)) >= 3
        /\ pkgs[i].name # <<>>
        /\ Len(pkgs[i].name) < Len(pkgs[i].git_url)

(* C9: no call changes a field of any package, and the same call made       *)
(* again gives the same outcome.                                            *)
C9_Frame ==
    [][/\ pkgs' = pkgs
       /\ (call'.op = call.op /\ call'.self = call.self
             /\ call'.other = call.other /\ call'.path = call.path)
            => call' = call]_vars

(* A call that returned false, the package still as constructed.            *)
C9_Witness ==
    /\ IsMatch /\ ReturnedFalse
    /\ Self = __init__(Self.git_url, Self.source, Self.module_dir)

(* C10: matches_path of a package's own canonical string returns true and   *)
(* raises nothing, whatever git_url, source and module_dir are.             *)
C10_MatchesOwnIdentity ==
    (IsMatch /\ call.path = __str__(Self)) => ReturnedTrue

(* A three-part canonical string matched its own package.                   *)
C10_Witness ==
    /\ IsMatch /\ call.path = __str__(Self)
    /\ NonEmpty(Self.source) /\ NonEmpty(Self.module_dir)
    /\ ReturnedTrue

====
